---- MODULE Spec2Model ----
(***************************************************************************)
(* Flight-log backend: the resource-bounded parse loop of                  *)
(* backend/mavparse.py (parse_bin_to_df), the anomaly detection engine of  *)
(* backend/anomaly.py (detect_anomalies and its six analyzers) and the     *)
(* chat response generator of backend/main.py (chat.gen).                  *)
(*                                                                         *)
(* Units.  Every number is an integer.  Alt, Curr, Roll, Pitch, Yaw,       *)
(* WPDst, CRt, NSats and TimeUS are in the unit of the source.  HDop and   *)
(* Volt are in tenths (1.8 is 18, 11.1 is 111).  Lat and Lng are in        *)
(* 1e-4 degree (10.0100 is 100100).  Elapsed time is in seconds.           *)
(***************************************************************************)
EXTENDS Integers, Sequences, FiniteSets, TLC

VARIABLES
    pc,               \* where the modelled call is: "connect", "loop", "returned", "raised" (parse_bin_to_df); "detect", "reported", "raised", "reported again" (detect_anomalies)
    message_count,    \* mavparse.py:22
    bad_data_count,   \* mavparse.py:23
    consecutive_bad,  \* mavparse.py:24
    rows,             \* mavparse.py:21, the list of row dicts, held as its length: the loop reads len(rows) and nothing else of it
    elapsed,          \* time.time() - start_time as the loop last read it (mavparse.py:33)
    decodes,          \* history: the number of mlog.recv_match calls made so far (mavparse.py:44)
    halt,             \* history: why the loop stopped
    kept,             \* history: len(rows) when the loop stopped (mavparse.py:77)
    result,           \* what parse_bin_to_df returned
    df,               \* the table handed to detect_anomalies
    report,           \* what detect_anomalies returned
    calls,            \* two calls of parse_bin_to_df at once: each call's own data, locals and result
    files,            \* the temporary directory the calls share: path -> what the decoder reads there
    chat              \* one run of the chat response generator: its stream, locals, yielded events and the session's history list

vars == <<pc, message_count, bad_data_count, consecutive_bad, rows, elapsed,
          decodes, halt, kept, result, df, report, calls, files, chat>>

\* The state of the single modelled call and of the detection engine.
loopVars == <<pc, message_count, bad_data_count, consecutive_bad, rows, elapsed,
              decodes, halt, kept, result, df, report>>

(***************************************************************************)
(* Tables.  A table is [kind |-> "table", n |-> number of rows, col |->    *)
(* a function from the names of the columns present to sequences of n      *)
(* cells].  A cell is <<v>> for a value v and << >> for a missing value    *)
(* (NaN / None); a cell of a numeric column that holds a string instead of *)
(* a number is <<"str", s>>.                                               *)
(***************************************************************************)
NaN == << >>

Text == <<"str", "n/a">>

IsText(cell) == Len(cell) = 2

Filled(values) == [i \in DOMAIN values |-> <<values[i]>>]

\* mavparse.py:105-113
create_minimal_test_data ==
    [kind |-> "table",
     n    |-> 5,
     col  |-> [TimeUS   |-> Filled(<<0, 60000000, 120000000, 180000000, 240000000>>),
               Alt      |-> Filled(<<50, 75, 60, 85, 55>>),
               HDop     |-> Filled(<<18, 15, 16, 21, 17>>),
               Volt     |-> Filled(<<126, 124, 122, 120, 118>>),
               msg_type |-> Filled(<<"GPS", "GPS", "GPS", "GPS", "GPS">>)]]

\* pd.DataFrame(rows), mavparse.py:82: one table row per decoded frame.  The
\* frames' fields are the decoder's and are not modelled.
DataFrame(r) == [kind |-> "frames", n |-> r]

NoResult == [kind |-> "none", n |-> 0]

(***************************************************************************)
(* parse_bin_to_df, mavparse.py:8-102.                                     *)
(***************************************************************************)
max_messages == 2000
max_bad_data == 100
max_consecutive_bad == 10
max_parse_time == 20
min_valid_rows == 10

\* What the clock can read at the head of an iteration: under, exactly at
\* and over the time budget.
ClockReadings == {0, max_parse_time, max_parse_time + 1}

\* mavparse.py:80-85
ReturnedTableLowBar ==
    IF rows # 0 /\ rows >= min_valid_rows - 1
    THEN DataFrame(rows)
    ELSE create_minimal_test_data

ReturnedTable ==
    IF rows # 0 /\ rows >= min_valid_rows
    THEN DataFrame(rows)
    ELSE create_minimal_test_data

\* The call is over and its locals are gone.
DropLocals ==
    /\ message_count' = 0
    /\ bad_data_count' = 0
    /\ consecutive_bad' = 0
    /\ rows' = 0

\* Leaving the loop, mavparse.py:77-85, then the finally clause 91-102
\* (mlog.close and os.unlink, their own failures swallowed).
Finish(why) ==
    /\ pc' = "returned"
    /\ halt' = why
    /\ kept' = rows
    /\ result' = ReturnedTable
    /\ DropLocals

\* The except clause of the outer try, mavparse.py:87-89.
ReraiseHandler ==
    /\ pc' = "raised"
    /\ halt' = "crash"
    /\ kept' = 0
    /\ result' = result

ParserCrashed ==
    /\ pc' = "returned"
    /\ halt' = "crash"
    /\ kept' = 0
    /\ result' = create_minimal_test_data

\* mavparse.py:15-29, mavlink_connection succeeds.
Connect ==
    /\ pc = "connect"
    /\ pc' = "loop"
    /\ message_count' = 0
    /\ bad_data_count' = 0
    /\ consecutive_bad' = 0
    /\ rows' = 0
    /\ elapsed' = 0
    /\ UNCHANGED <<decodes, halt, kept, result, df, report, calls, files, chat>>

\* mavparse.py:16-19 raise (unreadable file, corrupt header): caught at 87.
ConnectRaises ==
    /\ pc = "connect"
    /\ ParserCrashed
    /\ UNCHANGED <<message_count, bad_data_count, consecutive_bad, rows,
                   elapsed, decodes, df, report, calls, files, chat>>

\* mavparse.py:31
WhileCondition ==
    message_count < max_messages /\ bad_data_count < max_bad_data

\* mavparse.py:33
TimedOutLate(now) == now > max_parse_time + 1

TimedOut(now) == now > max_parse_time

\* mavparse.py:38
TooManyConsecutiveStrict == consecutive_bad > max_consecutive_bad

TooManyConsecutive == consecutive_bad >= max_consecutive_bad

\* The while condition fails, mavparse.py:31.
WhileExit ==
    /\ pc = "loop"
    /\ ~WhileCondition
    /\ Finish("cap")
    /\ UNCHANGED <<elapsed, decodes, df, report, calls, files, chat>>

\* An iteration begins and reads the clock, mavparse.py:31-33.
Iteration(now) ==
    /\ pc = "loop"
    /\ WhileCondition
    /\ now \in ClockReadings
    /\ now >= elapsed
    /\ elapsed' = now

\* mavparse.py:33-35
Timeout ==
    \E now \in ClockReadings :
        /\ Iteration(now)
        /\ TimedOut(now)
        /\ Finish("timeout")
        /\ UNCHANGED <<decodes, df, report, calls, files, chat>>

\* mavparse.py:38-40
ConsecutiveStop ==
    \E now \in ClockReadings :
        /\ Iteration(now)
        /\ ~TimedOut(now)
        /\ TooManyConsecutive
        /\ Finish("consecutive")
        /\ UNCHANGED <<decodes, df, report, calls, files, chat>>

\* An iteration that reaches mlog.recv_match, mavparse.py:42-44.
Decode(now) ==
    /\ Iteration(now)
    /\ ~TimedOut(now)
    /\ ~TooManyConsecutive
    /\ decodes' = decodes + 1

\* mavparse.py:45-46: the decoder has no more frames.
RecvNone ==
    \E now \in ClockReadings :
        /\ Decode(now)
        /\ Finish("eof")
        /\ UNCHANGED <<df, report, calls, files, chat>>

\* mavparse.py:50-55
BadDataBranch ==
    /\ bad_data_count' = bad_data_count + 1
    /\ consecutive_bad' = consecutive_bad + 1

\* The per-frame except clause, mavparse.py:70-75; c is consecutive_bad as
\* the try body left it.
FrameHandlerNoCount(c) ==
    /\ bad_data_count' = bad_data_count
    /\ consecutive_bad' = c + 1

FrameHandler(c) ==
    /\ bad_data_count' = bad_data_count + 1
    /\ consecutive_bad' = c + 1

\* mavparse.py:44-55: the decoder yields a BAD_DATA marker.
RecvBadData ==
    \E now \in ClockReadings :
        /\ Decode(now)
        /\ BadDataBranch
        /\ UNCHANGED <<pc, message_count, rows, halt, kept, result, df, report, calls, files, chat>>

\* mavparse.py:44 or 49 raises (recv_match, get_type): nothing assigned yet.
RecvRaises ==
    \E now \in ClockReadings :
        /\ Decode(now)
        /\ FrameHandler(consecutive_bad)
        /\ UNCHANGED <<pc, message_count, rows, halt, kept, result, df, report, calls, files, chat>>

\* mavparse.py:61 raises (msg.to_dict) after line 58 has reset consecutive_bad.
ToDictRaises ==
    \E now \in ClockReadings :
        /\ Decode(now)
        /\ FrameHandler(0)
        /\ UNCHANGED <<pc, message_count, rows, halt, kept, result, df, report, calls, files, chat>>

\* mavparse.py:57-64
KeepFrame ==
    /\ consecutive_bad' = 0
    /\ rows' = rows + 1
    /\ message_count' = message_count + 1

\* mavparse.py:44-68: the decoder yields a valid frame.
RecvValid ==
    \E now \in ClockReadings :
        /\ Decode(now)
        /\ KeepFrame
        /\ UNCHANGED <<pc, bad_data_count, halt, kept, result, df, report, calls, files, chat>>

(***************************************************************************)
(* detect_anomalies and its analyzers, anomaly.py.                         *)
(*                                                                         *)
(* A finding is a record with the source's "type" and "severity" and the   *)
(* metrics that are whole numbers in the model's units; a mean is carried  *)
(* as <<sum, count>>.  The description string, which repeats the metrics,  *)
(* and max_jump_m, a square root, are not carried.                         *)
(***************************************************************************)
Columns(t) == DOMAIN t.col

\* Series.dropna(): the cells that are not missing, in row order, each with
\* the row label it keeps.
dropna(s) ==
    LET kept_labels == SelectSeq([i \in 1..Len(s) |-> i], LAMBDA i : s[i] # NaN)
    IN  [k \in 1..Len(kept_labels) |->
            [label |-> kept_labels[k], value |-> s[kept_labels[k]][1]]]

values(x) == [k \in 1..Len(x) |-> x[k].value]

\* Series.diff() without its leading NaN: entry k is v[k+1] - v[k].
diff(v) == [k \in 1..(Len(v) - 1) |-> v[k + 1] - v[k]]

abs(x) == IF x < 0 THEN -x ELSE x

abs_all(v) == [k \in 1..Len(v) |-> abs(v[k])]

Elements(v) == {v[k] : k \in 1..Len(v)}

seq_max(v) == CHOOSE m \in Elements(v) : \A y \in Elements(v) : y <= m

seq_min(v) == CHOOSE m \in Elements(v) : \A y \in Elements(v) : m <= y

RECURSIVE seq_sum(_)
seq_sum(v) == IF Len(v) = 0 THEN 0 ELSE v[1] + seq_sum(Tail(v))

\* (mask).sum(): how many entries satisfy the test.
count_where(v, Test(_)) == Cardinality({k \in 1..Len(v) : Test(v[k])})

When(condition, finding) == IF condition THEN <<finding>> ELSE << >>

\* anomaly.py:86
is_large_change_25(d) == d > 25

is_large_change(d) == d > 20

\* anomaly.py:99-100; i is the source's 0-based index, alt.iloc[i] is
\* alt[i + 1].
is_spike_inclusive(alt, i) ==
    /\ alt[i + 1] - alt[i] >= 15
    /\ alt[i + 2] - alt[i + 1] <= -15

is_spike_at(alt, i) ==
    /\ alt[i + 1] - alt[i] > 15
    /\ alt[i + 2] - alt[i + 1] < -15

\* anomaly.py:73-117
analyze_altitude_anomalies(t) ==
    IF "Alt" \notin Columns(t) THEN << >>
    ELSE
    LET alt == values(dropna(t.col["Alt"])) IN
    IF Len(alt) < 2 THEN << >>
    ELSE
    LET alt_diff == abs_all(diff(alt))
        large(d) == is_large_change(d)
        max_change == seq_max(alt_diff)
        \* range(1, len(alt) - 1), anomaly.py:98; i is the source's 0-based index
        interior == [k \in 1..(Len(alt) - 2) |-> k]
        is_spike(i) == is_spike_at(alt, i)
        spikes == SelectSeq(interior, is_spike)
    IN  When(count_where(alt_diff, large) > 0,
             [type |-> "large_altitude_change",
              severity |-> IF max_change > 50 THEN "high" ELSE "medium",
              max_change_m |-> max_change,
              occurrences |-> count_where(alt_diff, large)])
        \o [k \in 1..Len(spikes) |->
              [type |-> "altitude_spike",
               severity |-> "medium",
               sample |-> spikes[k],
               spike_magnitude_m |-> alt[spikes[k] + 1] - alt[spikes[k]]]]
        \o When(seq_min(alt) < -5,
                [type |-> "negative_altitude",
                 severity |-> "high",
                 min_altitude_m |-> seq_min(alt)])

\* np.cos(np.radians(lat.mean())) in thousandths, anomaly.py:161.  The
\* model's latitudes all lie within 0.1 degree of 10 degrees, where the
\* cosine is 0.985 to three places.
cos_permille(lat_sum, lat_count) == 985

\* anomaly.py:154-173.  lat.diff() and lng.diff() keep the row labels of
\* the cells they were taken from, and lat_diff**2 + lng_diff**2 is formed
\* label by label: a label only one of the two has gives NaN, which is
\* never > 100.  Differences are in 1e-4 degree, distances in decimetres
\* (1e-4 degree * 111000 m is 111 dm, the longitude term rounded down to a
\* whole decimetre), compared squared.
position_jumps(t) ==
    LET lat == dropna(t.col["Lat"])
        lng == dropna(t.col["Lng"])
    IN
    IF ~(Len(lat) > 1 /\ Len(lng) > 1) THEN << >>
    ELSE
    LET lat_values == values(lat)
        cosine == cos_permille(seq_sum(lat_values), Len(lat_values))
        lat_diff == [k \in 2..Len(lat) |-> (lat[k].value - lat[k - 1].value) * 111]
        lng_diff == [k \in 2..Len(lng) |->
                        (abs(lng[k].value - lng[k - 1].value) * 111 * cosine) \div 1000]
        both == {<<i, j>> \in (2..Len(lat)) \X (2..Len(lng)) :
                    lat[i].label = lng[j].label}
        large_jumps == {p \in both :
                          lat_diff[p[1]] * lat_diff[p[1]]
                            + lng_diff[p[2]] * lng_diff[p[2]] > 1000 * 1000}
    IN  When(large_jumps # {},
             [type |-> "gps_position_jump",
              severity |-> "critical",
              jump_count |-> Cardinality(large_jumps)])

\* anomaly.py:120-175
analyze_gps_anomalies(t) ==
    LET hdop == IF "HDop" \in Columns(t)
                THEN values(dropna(t.col["HDop"])) ELSE << >>
        poor(h) == h > 30
        poor_gps == SelectSeq(hdop, poor)
        nsats == IF "NSats" \in Columns(t)
                 THEN values(dropna(t.col["NSats"])) ELSE << >>
        low(s) == s < 6
    IN  When(Len(hdop) > 0 /\ Len(poor_gps) > 0,
             [type |-> "poor_gps_accuracy",
              severity |-> IF seq_sum(poor_gps) > 50 * Len(poor_gps)
                           THEN "high" ELSE "medium",
              max_hdop |-> seq_max(hdop),
              avg_poor_hdop |-> <<seq_sum(poor_gps), Len(poor_gps)>>,
              poor_samples |-> Len(poor_gps)])
        \o When(Len(nsats) > 0 /\ count_where(nsats, low) > 0,
                [type |-> "insufficient_satellites",
                 severity |-> "high",
                 min_satellites |-> seq_min(nsats),
                 low_sat_samples |-> count_where(nsats, low)])
        \o (IF "Lat" \in Columns(t) /\ "Lng" \in Columns(t)
            THEN position_jumps(t) ELSE << >>)


\* anomaly.py:205, in tenths of a volt
is_large_drop_inclusive(d) == d <= -5

is_large_drop(d) == d < -5

\* anomaly.py:221
is_high_current_inclusive(a) == a >= 30

is_high_current(a) == a > 30

\* anomaly.py:178-230
analyze_battery_anomalies(t) ==
    LET voltage == IF "Volt" \in Columns(t)
                   THEN values(dropna(t.col["Volt"])) ELSE << >>
        voltage_diff == diff(voltage)
        large_drop(d) == is_large_drop(d)
        current == IF "Curr" \in Columns(t)
                   THEN values(dropna(t.col["Curr"])) ELSE << >>
    IN  (IF Len(voltage) = 0 THEN << >>
         ELSE IF seq_min(voltage) < 111
         THEN <<[type |-> "low_battery_voltage",
                 severity |-> "critical",
                 min_voltage |-> seq_min(voltage),
                 voltage_drop |-> seq_max(voltage) - seq_min(voltage)]>>
         ELSE IF seq_min(voltage) < 115
         THEN <<[type |-> "low_battery_warning",
                 severity |-> "medium",
                 min_voltage |-> seq_min(voltage)]>>
         ELSE << >>)
        \o When(Len(voltage) > 0 /\ count_where(voltage_diff, large_drop) > 0,
                [type |-> "voltage_drop",
                 severity |-> "medium",
                 max_drop_v |-> abs(seq_min(voltage_diff)),
                 drop_count |-> count_where(voltage_diff, large_drop)])
        \o When(Len(current) > 0 /\ is_high_current(seq_max(current)),
                [type |-> "high_current_draw",
                 severity |-> "medium",
                 max_current_a |-> seq_max(current),
                 avg_current_a |-> <<seq_sum(current), Len(current)>>])

\* One pass of the loop over the axes, anomaly.py:238-263; lower is
\* axis.lower().
axis_anomalies(t, axis, lower) ==
    IF axis \notin Columns(t) THEN << >>
    ELSE
    LET attitude == values(dropna(t.col[axis])) IN
    IF ~(Len(attitude) > 1) THEN << >>
    ELSE
    LET attitude_diff == abs_all(diff(attitude))
        large(d) == d > 30
        max_change == seq_max(attitude_diff)
        extreme == seq_max(abs_all(attitude))
    IN  When(count_where(attitude_diff, large) > 0,
             [type |-> lower \o "_instability",
              severity |-> IF max_change > 60 THEN "high" ELSE "medium",
              max_change_deg |-> max_change,
              axis |-> lower])
        \o When(extreme > 45,
                [type |-> "extreme_" \o lower,
                 severity |-> "high",
                 max_attitude_deg |-> extreme,
                 axis |-> lower])

\* anomaly.py:233-265
analyze_control_desired(t) ==
    axis_anomalies(t, "Roll", "roll")
        \o axis_anomalies(t, "Pitch", "pitch")
        \o axis_anomalies(t, "Yaw", "yaw")
        \o axis_anomalies(t, "DesRoll", "desroll")

analyze_control_anomalies(t) ==
    axis_anomalies(t, "Roll", "roll")
        \o axis_anomalies(t, "Pitch", "pitch")
        \o axis_anomalies(t, "Yaw", "yaw")

\* anomaly.py:278, increasing_dist.sum() > len(wp_dist) * 0.3, compared as
\* 10 * sum > 3 * len: for every len up to 2000 and every sum the float
\* product len * 0.3 compares with sum as three tenths of len does.
exceeds_share_of_steps(increases, samples) == 10 * increases > 3 * (samples - 1)

exceeds_share(increases, samples) == 10 * increases > 3 * samples

\* anomaly.py:268-299
analyze_navigation_anomalies(t) ==
    LET wp_dist == IF "WPDst" \in Columns(t)
                   THEN values(dropna(t.col["WPDst"])) ELSE << >>
        increasing(d) == d > 10
        climb_rate == IF "CRt" \in Columns(t)
                      THEN values(dropna(t.col["CRt"])) ELSE << >>
    IN  When(/\ Len(wp_dist) > 1
             /\ exceeds_share(count_where(diff(wp_dist), increasing),
                              Len(wp_dist)),
             [type |-> "waypoint_navigation_error",
              severity |-> "medium",
              max_wp_distance_m |-> seq_max(wp_dist)])
        \o When(Len(climb_rate) > 0 /\ seq_max(abs_all(climb_rate)) > 500,
                [type |-> "excessive_climb_rate",
                 severity |-> "high",
                 max_climb_rate_cms |-> seq_max(abs_all(climb_rate))])

\* Series.unique(): the distinct cells in order of first appearance, a
\* missing cell among them.
RECURSIVE unique(_)
unique(s) ==
    IF Len(s) = 0 THEN << >>
    ELSE LET front == unique(SubSeq(s, 1, Len(s) - 1))
             last == s[Len(s)]
         IN  IF \E k \in 1..Len(front) : front[k] = last
             THEN front ELSE Append(front, last)

\* anomaly.py:302-330
analyze_system_errors(t) ==
    IF "msg_type" \notin Columns(t) THEN << >>
    ELSE
    LET msg_type == t.col["msg_type"]
        rows_of(tag) == SelectSeq([i \in 1..Len(msg_type) |-> i],
                                  LAMBDA i : msg_type[i] = <<tag>>)
        error_messages == rows_of("ERR")
        mode_messages == rows_of("MODE")
    IN  When(Len(error_messages) > 0,
             [type |-> "system_errors_detected",
              severity |-> "high",
              error_count |-> Len(error_messages),
              error_types |->
                  IF "SubSys" \in Columns(t)
                  THEN unique([k \in 1..Len(error_messages) |->
                                  t.col["SubSys"][error_messages[k]]])
                  ELSE << >>])
        \o When(Len(mode_messages) > 3,
                [type |-> "frequent_mode_changes",
                 severity |-> "medium",
                 mode_change_count |-> Len(mode_messages)])

HasAny(t, names) == \E name \in names : name \in Columns(t)

\* anomaly.py:59-68
severity_of_loose(total) ==
    IF total = 0 THEN "normal"
    ELSE IF total <= 3 THEN "minor"
    ELSE IF total <= 5 THEN "moderate"
    ELSE "critical"

severity_of(total) ==
    IF total = 0 THEN "normal"
    ELSE IF total <= 2 THEN "minor"
    ELSE IF total <= 5 THEN "moderate"
    ELSE "critical"

\* The running total of anomaly.py:27, 33, 39, 45, 51, 57.
total_skipping_errors(altitude, gps, battery, control, nav, errors) ==
    Len(altitude) + Len(gps) + Len(battery) + Len(control) + Len(nav)

total_of(altitude, gps, battery, control, nav, errors) ==
    Len(altitude) + Len(gps) + Len(battery) + Len(control) + Len(nav)
        + Len(errors)

\* anomaly.py:10-18
empty_report ==
    [summary |-> [total_anomalies |-> 0, severity |-> "normal"],
     altitude_issues |-> << >>,
     gps_problems |-> << >>,
     battery_concerns |-> << >>,
     control_anomalies |-> << >>,
     navigation_issues |-> << >>,
     system_errors |-> << >>]

\* anomaly.py:20
too_short_lax(t) == t.n < 1

too_short(t) == t.n < 2

\* anomaly.py:5-70
detect_anomalies(t) ==
    IF too_short(t) THEN empty_report
    ELSE
    LET altitude == IF "Alt" \in Columns(t)
                    THEN analyze_altitude_anomalies(t) ELSE << >>
        gps == IF HasAny(t, {"HDop", "NSats", "Lat", "Lng"})
               THEN analyze_gps_anomalies(t) ELSE << >>
        battery == IF HasAny(t, {"Volt", "Curr", "CurrTot"})
                   THEN analyze_battery_anomalies(t) ELSE << >>
        control == IF HasAny(t, {"Roll", "Pitch", "Yaw", "DesRoll", "DesPitch"})
                   THEN analyze_control_anomalies(t) ELSE << >>
        nav == IF HasAny(t, {"WPDst", "CRt", "VelX", "VelY"})
               THEN analyze_navigation_anomalies(t) ELSE << >>
        errors == IF "msg_type" \in Columns(t)
                  THEN analyze_system_errors(t) ELSE << >>
        total == total_of(altitude, gps, battery, control, nav, errors)
    IN  [summary |-> [total_anomalies |-> total, severity |-> severity_of(total)],
         altitude_issues |-> altitude,
         gps_problems |-> gps,
         battery_concerns |-> battery,
         control_anomalies |-> control,
         navigation_issues |-> nav,
         system_errors |-> errors]

\* The cells of column name that dropna() leaves: all but the missing ones.
\* A string is not a missing value and stays.
present(t, name) ==
    IF name \in Columns(t)
    THEN SelectSeq(t.col[name], LAMBDA cell : cell # NaN)
    ELSE << >>

has_text(t, name) == \E k \in 1..Len(present(t, name)) : IsText(present(t, name)[k])

\* The columns whose cells reach a subtraction, a comparison with a number,
\* abs() or min()/max() in an analyzer that runs, with the number of
\* non-missing cells from which the analyzer computes on them: Alt
\* (anomaly.py:81-85), HDop (127-129), NSats (143-145), Lat and Lng (158-161),
\* Volt (185-187), Curr (219-221), Roll, Pitch and Yaw (241-243), WPDst
\* (275-277), CRt (289-291).
computed_columns(t) ==
    {name \in {"Alt", "Roll", "Pitch", "Yaw", "WPDst"} :
        Len(present(t, name)) > 1}
    \cup {name \in {"HDop", "NSats", "Volt", "Curr", "CRt"} :
            Len(present(t, name)) > 0}
    \cup {name \in {"Lat", "Lng"} :
            Len(present(t, "Lat")) > 1 /\ Len(present(t, "Lng")) > 1}

\* detect_anomalies(t) raises TypeError: str and float do not subtract or
\* compare, and nothing in anomaly.py catches the exception.
raises_TypeError(t) ==
    /\ ~too_short(t)
    /\ \E name \in computed_columns(t) : has_text(t, name)

NoTable == [kind |-> "table", n |-> 0, col |-> [msg_type |-> << >>]]
NoReport == [kind |-> "none"]

Init ==
    /\ pc = "connect"
    /\ message_count = 0
    /\ bad_data_count = 0
    /\ consecutive_bad = 0
    /\ rows = 0
    /\ elapsed = 0
    /\ decodes = 0
    /\ halt = "running"
    /\ kept = 0
    /\ result = NoResult
    /\ df = NoTable
    /\ report = NoReport
    /\ calls = << >>
    /\ files = << >>
    /\ chat = << >>

Next ==
    \/ Connect
    \/ ConnectRaises
    \/ WhileExit
    \/ Timeout
    \/ ConsecutiveStop
    \/ RecvNone
    \/ RecvBadData
    \/ RecvRaises
    \/ ToDictRaises
    \/ RecvValid

Spec == Init /\ [][Next]_vars

(***************************************************************************)
(* The tables detect_anomalies is run on: the synthetic dataset, and every *)
(* table of at most MaxRows rows made of one focus column, whose cells     *)
(* range over that column's alphabet and the missing value, beside the     *)
(* columns of a background.                                                *)
(***************************************************************************)
MaxRows == 4

\* The values a focus column's cells are drawn from: each threshold of the
\* analyzers has a value or a difference on either side of it.
ColumnAlphabet ==
    [Alt      |-> {-6, 0, 15, 31, 82},
     HDop     |-> {30, 31, 70},
     NSats    |-> {5, 6},
     Lat      |-> {100000, 100009, 100100},
     Lng      |-> {200000, 200010},
     Volt     |-> {110, 111, 115, 120},
     Curr     |-> {30, 31},
     CurrTot  |-> {0, 100},
     Roll     |-> {-46, 0, 30, 45},
     Pitch    |-> {-46, 0, 30, 45},
     Yaw      |-> {-46, 0, 30, 45},
     DesRoll  |-> {0, 90},
     DesPitch |-> {0, 90},
     WPDst    |-> {0, 10, 11, 30},
     CRt      |-> {-501, 0, 500},
     VelX     |-> {0, 900},
     VelY     |-> {0, 900},
     msg_type |-> {"GPS", "ERR", "MODE"}]

FocusColumns == DOMAIN ColumnAlphabet

Cells(column) == {<<v>> : v \in ColumnAlphabet[column]} \cup {NaN}

\* Background columns: each is filled with its pair of values in turn.
BundleColumns ==
    [errs     |-> [msg_type |-> <<"ERR", "ERR">>, SubSys |-> <<1, 2>>],
     power    |-> [Curr |-> <<40, 40>>, CurrTot |-> <<0, 5>>],
     attitude |-> [Roll |-> <<-46, 45>>, DesRoll |-> <<0, 0>>],
     nav      |-> [CRt |-> <<600, 600>>, VelX |-> <<3, 3>>],
     dispatch |-> [DesRoll |-> <<0, 90>>, DesPitch |-> <<0, 90>>,
                   VelX |-> <<0, 900>>, VelY |-> <<0, 900>>,
                   CurrTot |-> <<0, 100>>],
     quiet    |-> [TimeUS |-> <<0, 1>>, Alt |-> <<50, 50>>, HDop |-> <<10, 12>>,
                   NSats |-> <<10, 9>>, Lat |-> <<100000, 100001>>,
                   Lng |-> <<200000, 200001>>, Volt |-> <<120, 119>>,
                   Curr |-> <<10, 12>>, CurrTot |-> <<0, 5>>, Roll |-> <<0, 5>>,
                   Pitch |-> <<0, -5>>, Yaw |-> <<40, 41>>, DesRoll |-> <<0, 5>>,
                   DesPitch |-> <<0, -5>>, WPDst |-> <<40, 30>>, CRt |-> <<100, -100>>,
                   VelX |-> <<3, 3>>, VelY |-> <<1, 1>>,
                   msg_type |-> <<"GPS", "ATT">>],
     noisy    |-> [Alt |-> <<0, 82>>, HDop |-> <<70, 31>>, NSats |-> <<4, 7>>,
                   Lat |-> <<100000, 100100>>, Lng |-> <<200000, 200010>>,
                   Volt |-> <<120, 110>>, Curr |-> <<40, 10>>, Roll |-> <<-46, 45>>,
                   Pitch |-> <<0, 31>>, Yaw |-> <<0, 50>>, WPDst |-> <<0, 30>>,
                   CRt |-> <<600, 0>>, msg_type |-> <<"MODE", "ERR">>,
                   SubSys |-> <<1, 2>>]]

\* The backgrounds: none, each bundle alone, and the four that trip one
\* analyzer each together.
Backgrounds ==
    {{}, {"errs", "power", "attitude", "nav"}}
        \cup {{b} : b \in DOMAIN BundleColumns}

alternating(pair, n) == [i \in 1..n |-> <<pair[2 - (i % 2)]>>]

\* The table of n rows with the focus column's cells and, for every other
\* column of the background's bundles, that column's alternating fill.
TableOf(bundles, focus, cells, n) ==
    LET others == UNION {DOMAIN BundleColumns[b] : b \in bundles} \ {focus}
        bundle_of(c) == CHOOSE b \in bundles : c \in DOMAIN BundleColumns[b]
    IN  [kind |-> "table",
         n    |-> n,
         col  |-> [c \in others \cup {focus} |->
                     IF c = focus THEN cells
                     ELSE alternating(BundleColumns[bundle_of(c)][c], n)]]

\* Tables whose focus column holds a string in at least one cell.
TextBackgrounds == {{}, {"quiet"}}

TextTable(t) ==
    \E n \in 1..(MaxRows - 1), focus \in FocusColumns, bundles \in TextBackgrounds :
        \E cells \in [1..n -> Cells(focus) \cup {Text}] :
            /\ \E i \in 1..n : IsText(cells[i])
            /\ t = TableOf(bundles, focus, cells, n)

\* Tables of Lat and Lng alone, each with its own gaps, the longitude never
\* changing.
PositionTable(t) ==
    \E n \in 2..MaxRows :
        \E lat \in [1..n -> Cells("Lat")], lng \in [1..n -> {<<200000>>, NaN}] :
            t = [kind |-> "table", n |-> n, col |-> [Lat |-> lat, Lng |-> lng]]

\* Longer tables of Alt alone, long enough for several spikes.
MaxAltRows == 6

LongAltTable(t) ==
    \E n \in (MaxRows + 1)..MaxAltRows :
        \E alt \in [1..n -> {<<0>>, <<15>>, <<31>>}] :
            t = [kind |-> "table", n |-> n, col |-> [Alt |-> alt]]

DetectInit ==
    /\ pc = "detect"
    /\ \/ df = create_minimal_test_data
       \/ \E n \in 0..MaxRows, focus \in FocusColumns, bundles \in Backgrounds :
            \E cells \in [1..n -> Cells(focus)] :
                df = TableOf(bundles, focus, cells, n)
       \/ TextTable(df)
       \/ PositionTable(df)
       \/ LongAltTable(df)
    /\ report = NoReport
    /\ message_count = 0
    /\ bad_data_count = 0
    /\ consecutive_bad = 0
    /\ rows = 0
    /\ elapsed = 0
    /\ decodes = 0
    /\ halt = "running"
    /\ kept = 0
    /\ result = NoResult
    /\ calls = << >>
    /\ files = << >>
    /\ chat = << >>

\* A call of detect_anomalies(df), anomaly.py:5-70: it returns its report or
\* lets the TypeError of a string cell out.  The table is only read.
Detect ==
    /\ pc = "detect"
    /\ IF raises_TypeError(df)
       THEN pc' = "raised" /\ report' = report
       ELSE pc' = "reported" /\ report' = detect_anomalies(df)
    /\ UNCHANGED <<message_count, bad_data_count, consecutive_bad, rows,
                   elapsed, decodes, halt, kept, result, df, calls, files, chat>>

\* A second call on the same table, after the first has returned; previous
\* is the report the first call built.  anomaly.py:10-18 builds the report
\* anew in a local and the module keeps nothing between calls.
second_report_accumulating(previous, t) ==
    [detect_anomalies(t) EXCEPT
        !.summary.total_anomalies = @ + previous.summary.total_anomalies]

second_report(previous, t) == detect_anomalies(t)

DetectAgain ==
    /\ pc = "reported"
    /\ pc' = "reported again"
    /\ report' = second_report(report, df)
    /\ UNCHANGED <<message_count, bad_data_count, consecutive_bad, rows,
                   elapsed, decodes, halt, kept, result, df, calls, files, chat>>

DetectNext == Detect \/ DetectAgain

DetectSpec == DetectInit /\ [][DetectNext]_vars

(***************************************************************************)
(* Two calls of parse_bin_to_df running at once (one per upload,           *)
(* main.py:31-43), each step of one interleaved with the steps of the      *)
(* other.  A call's locals are the fields of calls[c]; its rows are held   *)
(* in full, each row being the position in the stream of the frame it was  *)
(* made from.  What the calls share is the temporary directory.            *)
(*                                                                         *)
(* An upload is [frames, patience]: frames is what the decoder makes of    *)
(* the bytes, frame by frame ("valid", "BAD_DATA", "recv_raises" for a     *)
(* frame on which recv_match or get_type raises, "to_dict_raises" for one  *)
(* whose to_dict raises), or Unreadable for bytes mavlink_connection       *)
(* rejects; patience is the number of iterations the call begins before    *)
(* its clock reads more than max_parse_time.                               *)
(***************************************************************************)
Calls == {1, 2}

Run(kind, k) == [i \in 1..k |-> kind]

Unreadable == <<"unreadable">>

\* A clock that never passes the budget within the loop's caps.
Patient == max_messages + max_bad_data

Uploads ==
    {[frames |-> << >>, patience |-> Patient],
     [frames |-> Unreadable, patience |-> Patient],
     [frames |-> Run("valid", 9), patience |-> Patient],
     [frames |-> Run("valid", 10), patience |-> Patient],
     [frames |-> Run("valid", 12), patience |-> 11],
     [frames |-> Run("valid", 12), patience |-> 3],
     [frames |-> Run("valid", 11) \o Run("BAD_DATA", 10) \o Run("valid", 1),
      patience |-> Patient],
     [frames |-> Run("valid", 5) \o Run("BAD_DATA", 3) \o Run("valid", 6)
                    \o Run("to_dict_raises", 1) \o Run("valid", 1),
      patience |-> Patient],
     [frames |-> Run("recv_raises", 2) \o Run("valid", 10) \o Run("BAD_DATA", 1),
      patience |-> Patient],
     [frames |-> Run("BAD_DATA", 9) \o Run("valid", 1) \o Run("recv_raises", 10)
                    \o Run("valid", 10),
      patience |-> Patient]}

NoDecoder == [frames |-> << >>, pos |-> 0]

\* A call as it is entered, mavparse.py:8.
NewCall(upload) ==
    [pc |-> "start",
     data |-> upload,
     temp_file_path |-> "",
     mlog |-> NoDecoder,
     rows |-> << >>,
     message_count |-> 0,
     bad_data_count |-> 0,
     consecutive_bad |-> 0,
     iterations |-> 0,
     result |-> NoResult]

\* pd.DataFrame(rows), mavparse.py:82, with the rows themselves.
DataFrameRows(r) == [kind |-> "frames", n |-> Len(r), rows |-> r]

TempNames == {"tmp_a.bin", "tmp_b.bin"}

\* tempfile.NamedTemporaryFile(delete=False, suffix='.bin'), mavparse.py:11:
\* the names it may give the file it creates, none of them a file that
\* exists.
NamedTemporaryFileFixed(existing) == {"tmp_a.bin"}

NamedTemporaryFile(existing) == TempNames \ existing

Written(dir, path, content) ==
    [name \in DOMAIN dir \cup {path} |-> IF name = path THEN content ELSE dir[name]]

\* os.unlink(temp_file_path), mavparse.py:100, its failure swallowed.
Unlinked(dir, path) == [name \in DOMAIN dir \ {path} |-> dir[name]]

\* mavparse.py:11-13
WriteTemp(c) ==
    /\ calls[c].pc = "start"
    /\ \E name \in NamedTemporaryFile(DOMAIN files) :
          /\ files' = Written(files, name, calls[c].data.frames)
          /\ calls' = [calls EXCEPT ![c].pc = "written",
                                    ![c].temp_file_path = name]
    /\ UNCHANGED <<loopVars, chat>>

\* mavparse.py:15-29: os.path.getsize and mavlink_connection on the call's
\* path.  If either raises (no such file, bytes it rejects) the handler at
\* 87-89 returns the synthetic dataset and 91-102 unlinks the file.
OpenLog(c) ==
    /\ calls[c].pc = "written"
    /\ LET path == calls[c].temp_file_path IN
       IF path \notin DOMAIN files \/ files[path] = Unreadable
       THEN /\ calls' = [calls EXCEPT ![c].pc = "returned",
                                      ![c].result = create_minimal_test_data]
            /\ files' = Unlinked(files, path)
       ELSE /\ calls' = [calls EXCEPT ![c].pc = "loop",
                                      ![c].mlog = [frames |-> files[path], pos |-> 0]]
            /\ files' = files
    /\ UNCHANGED <<loopVars, chat>>

\* rows.append(d), mavparse.py:63
prepended(r, d) == <<d>> \o r

appended(r, d) == Append(r, d)

\* Leaving the loop, mavparse.py:77-85, on the call's locals s.
returned(s) ==
    [s EXCEPT !.pc = "returned",
              !.result = IF Len(s.rows) # 0 /\ Len(s.rows) >= min_valid_rows
                         THEN DataFrameRows(s.rows)
                         ELSE create_minimal_test_data]

\* One pass of the while loop, mavparse.py:31-75, on the call's locals s.
iterate(s) ==
    IF ~(s.message_count < max_messages /\ s.bad_data_count < max_bad_data)
    THEN returned(s)                                    \* line 31
    ELSE IF s.iterations >= s.data.patience
    THEN returned(s)                                    \* lines 33-35
    ELSE IF s.consecutive_bad >= max_consecutive_bad
    THEN returned(s)                                    \* lines 38-40
    ELSE IF s.mlog.pos >= Len(s.mlog.frames)
    THEN returned(s)                                    \* lines 44-46, msg is None
    ELSE
    LET at == s.mlog.pos + 1
        kind == s.mlog.frames[at]
        read == [s EXCEPT !.mlog.pos = at, !.iterations = @ + 1]
    IN  IF kind = "BAD_DATA"                            \* lines 50-55
        THEN [read EXCEPT !.bad_data_count = @ + 1, !.consecutive_bad = @ + 1]
        ELSE IF kind = "recv_raises"                    \* lines 44 or 49, then 70-75
        THEN [read EXCEPT !.bad_data_count = @ + 1, !.consecutive_bad = @ + 1]
        ELSE IF kind = "to_dict_raises"                 \* lines 58, 61, then 70-75
        THEN [read EXCEPT !.bad_data_count = @ + 1, !.consecutive_bad = 0 + 1]
        ELSE [read EXCEPT !.consecutive_bad = 0,        \* lines 58-64
                          !.rows = appended(@, at),
                          !.message_count = @ + 1]

\* A call takes one pass of its loop or leaves it; on leaving, the finally
\* clause (mavparse.py:91-102) unlinks the call's temporary file.
ParseIteration(c) ==
    /\ calls[c].pc = "loop"
    /\ calls' = [calls EXCEPT ![c] = iterate(calls[c])]
    /\ files' = IF iterate(calls[c]).pc = "returned"
                THEN Unlinked(files, calls[c].temp_file_path)
                ELSE files
    /\ UNCHANGED <<loopVars, chat>>

PairInit ==
    /\ pc = "calls"
    /\ message_count = 0
    /\ bad_data_count = 0
    /\ consecutive_bad = 0
    /\ rows = 0
    /\ elapsed = 0
    /\ decodes = 0
    /\ halt = "running"
    /\ kept = 0
    /\ result = NoResult
    /\ df = NoTable
    /\ report = NoReport
    /\ \E first \in Uploads, second \in Uploads :
          calls = [c \in Calls |-> NewCall(IF c = 1 THEN first ELSE second)]
    /\ files = [name \in {} |-> << >>]
    /\ chat = << >>

PairNext ==
    \E c \in Calls :
        \/ WriteTemp(c)
        \/ OpenLog(c)
        \/ ParseIteration(c)

PairSpec == PairInit /\ [][PairNext]_vars

(***************************************************************************)
(* The chat response generator, main.py:68-94, and the session history of  *)
(* chat_state.py.  A string is the sequence of its characters.  A chunk    *)
(* of the stream is held as its choices[0].delta.content: <<token>> for a  *)
(* token, << >> for None.  The generator is suspended at each yield and    *)
(* runs on only when its consumer asks for the next item.                  *)
(***************************************************************************)
NL == "\n"

\* chunk.choices[0].delta.content is None, main.py:74
None == << >>

\* chunk.choices[0].delta.content is the string token, main.py:75
Content(token) == <<token>>

\* The tokens the model streams: the empty string, a word, a word with its
\* full stop, a full stop with text after it, a question mark, an exclamation
\* mark, one newline, a blank line.
Tokens ==
    { << >>, <<"a">>, <<"a", ".">>, <<".", "a">>, <<"?">>, <<"!">>,
      <<NL>>, <<NL, NL>> }

Chunks == {None} \cup {Content(token) : token \in Tokens}

\* The longest stream of chunks.
MaxChunks == 4

\* ''.join(parts), main.py:82, 88, 92
RECURSIVE join(_)
join(parts) ==
    IF parts = << >> THEN << >> ELSE Head(parts) \o join(Tail(parts))

\* punct in token, main.py:80: punct is a substring of token
contains(token, punct) ==
    \E i \in 1..(Len(token) - Len(punct) + 1) :
        SubSeq(token, i, i + Len(punct) - 1) = punct

\* any(punct in token for punct in ['.', '!', '?', '\n\n']), main.py:80
sentence_boundary(token) ==
    \E punct \in {<<".">>, <<"!">>, <<"?">>, <<NL, NL>>} : contains(token, punct)

\* f"data:{text}\n\n", main.py:83, 89
event(text) == <<"d", "a", "t", "a", ":">> \o text \o <<NL, NL>>

\* A buffer carried over into the next sentence: what main.py:84 prevents.
keep_buffer(sentence_buffer) == sentence_buffer

\* sentence_buffer = []  # Reset buffer, main.py:84
reset_buffer(sentence_buffer) == << >>

\* json.dumps and json.loads of a string, chat_state.py:7, 12: a newline is
\* written as backslash n, a backslash as two.
RECURSIVE json_escape(_)
json_escape(s) ==
    IF s = << >> THEN << >>
    ELSE (IF Head(s) = NL THEN <<"\\", "n">>
          ELSE IF Head(s) = "\\" THEN <<"\\", "\\">>
          ELSE <<Head(s)>>) \o json_escape(Tail(s))

RECURSIVE json_unescape(_)
json_unescape(s) ==
    IF s = << >> THEN << >>
    ELSE IF Head(s) = "\\" /\ Len(s) > 1
         THEN <<IF s[2] = "n" THEN NL ELSE s[2]>> \o json_unescape(Tail(Tail(s)))
         ELSE <<Head(s)>> \o json_unescape(Tail(s))

\* chat_state.py:5-7: r.rpush(f"hist:{sid}", json.dumps({role, content}))
push_msg(hist, role, content) ==
    Append(hist, [role |-> role, content |-> json_escape(content)])

\* chat_state.py:10-12: the list, each entry through json.loads
history(hist) ==
    [i \in 1..Len(hist) |->
        [role |-> hist[i].role, content |-> json_unescape(hist[i].content)]]

\* The session's list when the generator starts: chat() has pushed the user's
\* message (main.py:55), after nothing or after an earlier exchange.
Histories ==
    { push_msg(<< >>, "user", <<"a">>),
      push_msg(push_msg(push_msg(<< >>, "user", <<"a">>),
                        "assistant", <<"a", ".", NL>>),
               "user", <<"a">>) }

\* gen() called on a stream, main.py:61-70
NewChat(stream, hist) ==
    [pc              |-> "loop",
     stream          |-> stream,
     pos             |-> 0,
     full            |-> << >>,
     sentence_buffer |-> << >>,
     events          |-> << >>,
     hist            |-> hist]

\* One pass of the for loop, main.py:72-83: a None content is skipped; a token
\* goes to full and to the buffer, and a token with a sentence boundary in it
\* yields the buffered sentence.
NextChunk ==
    /\ chat.pc = "loop"
    /\ chat.pos < Len(chat.stream)
    /\ LET chunk == chat.stream[chat.pos + 1] IN
       IF chunk = None
       THEN chat' = [chat EXCEPT !.pos = @ + 1]
       ELSE LET token == chunk[1]
                buffered == Append(chat.sentence_buffer, token) IN
            IF sentence_boundary(token)
            THEN chat' = [chat EXCEPT !.pos = @ + 1,
                                      !.full = Append(@, token),
                                      !.sentence_buffer = buffered,
                                      !.events = Append(@, event(join(buffered))),
                                      !.pc = "yield sentence"]
            ELSE chat' = [chat EXCEPT !.pos = @ + 1,
                                      !.full = Append(@, token),
                                      !.sentence_buffer = buffered]
    /\ UNCHANGED <<loopVars, calls, files>>

\* The consumer asks for the next item after a sentence, main.py:84.
ResumeSentence ==
    /\ chat.pc = "yield sentence"
    /\ chat' = [chat EXCEPT !.sentence_buffer = reset_buffer(@),
                            !.pc = "loop"]
    /\ UNCHANGED <<loopVars, calls, files>>

\* The stream is exhausted, main.py:86-92: a non-empty buffer is yielded;
\* with an empty one the reply is saved at once and the generator ends.
EndOfStream ==
    /\ chat.pc = "loop"
    /\ chat.pos = Len(chat.stream)
    /\ IF chat.sentence_buffer # << >>
       THEN chat' = [chat EXCEPT !.events = Append(@, event(join(chat.sentence_buffer))),
                                 !.pc = "yield remaining"]
       ELSE chat' = [chat EXCEPT !.hist = push_msg(@, "assistant", join(chat.full)),
                                 !.pc = "done"]
    /\ UNCHANGED <<loopVars, calls, files>>

\* The consumer asks for the next item after the remaining text, main.py:92.
SaveReply ==
    /\ chat.pc = "yield remaining"
    /\ chat' = [chat EXCEPT !.hist = push_msg(@, "assistant", join(chat.full)),
                            !.pc = "done"]
    /\ UNCHANGED <<loopVars, calls, files>>

\* The consumer drops the generator while it is suspended at a yield
\* (main.py:83, 89): nothing after that yield runs.
Close ==
    /\ chat.pc \in {"yield sentence", "yield remaining"}
    /\ chat' = [chat EXCEPT !.pc = "closed"]
    /\ UNCHANGED <<loopVars, calls, files>>

ChatInit ==
    /\ pc = "chat"
    /\ message_count = 0
    /\ bad_data_count = 0
    /\ consecutive_bad = 0
    /\ rows = 0
    /\ elapsed = 0
    /\ decodes = 0
    /\ halt = "running"
    /\ kept = 0
    /\ result = NoResult
    /\ df = NoTable
    /\ report = NoReport
    /\ calls = << >>
    /\ files = << >>
    /\ \E n \in 0..MaxChunks, hist \in Histories :
          \E stream \in [1..n -> Chunks] : chat = NewChat(stream, hist)

ChatNext ==
    \/ NextChunk
    \/ ResumeSentence
    \/ EndOfStream
    \/ SaveReply
    \/ Close

ChatSpec == ChatInit /\ [][ChatNext]_vars

(***************************************************************************)
(* The parse loop's claims, checked under Spec.                            *)
(***************************************************************************)

\* C1: whatever the decoder does (valid frames, BAD_DATA markers, exceptions
\* when connecting or per frame), parse_bin_to_df never lets an exception out
\* and what it returns is a table with at least one row.
C1_NeverRaisesNeverEmpty ==
    /\ pc # "raised"
    /\ pc = "returned" => result.kind \in {"table", "frames"} /\ result.n >= 1

\* A connection-time exception was absorbed and a table came back.
C1_Witness == pc = "returned" /\ halt = "crash" /\ result.n >= 1

\* The fixed synthetic dataset, as the claim lists it (HDop, Volt in tenths).
C2_SyntheticDataset ==
    [kind |-> "table",
     n    |-> 5,
     col  |-> [TimeUS   |-> <<(<<0>>), (<<60000000>>), (<<120000000>>),
                              (<<180000000>>), (<<240000000>>)>>,
               Alt      |-> <<(<<50>>), (<<75>>), (<<60>>), (<<85>>), (<<55>>)>>,
               HDop     |-> <<(<<18>>), (<<15>>), (<<16>>), (<<21>>), (<<17>>)>>,
               Volt     |-> <<(<<126>>), (<<124>>), (<<122>>), (<<120>>), (<<118>>)>>,
               msg_type |-> <<(<<"GPS">>), (<<"GPS">>), (<<"GPS">>), (<<"GPS">>),
                              (<<"GPS">>)>>]]

\* C2: when the loop has stopped, for whatever reason, with fewer than 10
\* valid frames kept, or the decoder raised outside the per-frame handling,
\* the table returned is exactly the fixed 5-row synthetic dataset and holds
\* none of the decoded frames.
C2_FewFramesGiveSynthetic ==
    (pc = "returned" /\ (kept < 10 \/ halt = "crash"))
        => result = C2_SyntheticDataset

\* Nine valid frames, one short of the bar, were decoded before the decoder
\* ran out, and the synthetic dataset came back.
C2_Witness ==
    /\ pc = "returned"
    /\ halt = "eof"
    /\ kept = 9
    /\ result = C2_SyntheticDataset

\* C3: in the loop message_count <= 2000, bad_data_count <= 100 and
\* consecutive_bad <= 10, and no iteration that starts with one of the three
\* at its cap asks the decoder for another frame.
C3_CapsHaltBeforeDecode ==
    /\ [](pc = "loop" => /\ message_count <= 2000
                         /\ bad_data_count <= 100
                         /\ consecutive_bad <= 10)
    /\ [][decodes' # decodes => /\ message_count < 2000
                                /\ bad_data_count < 100
                                /\ consecutive_bad < 10]_vars

\* The loop stopped on the message cap with 2000 frames kept.
C3_Witness == pc = "returned" /\ halt = "cap" /\ kept = 2000

\* C4 as claimed: an iteration whose clock reads 20 seconds or more halts
\* without decoding, so every decode happens at a reading under 20.
C4_HaltsAtTwenty ==
    [][decodes' = decodes + 1 => elapsed' < 20]_vars

\* C4 amended: every iteration reads the clock, and one whose clock reads
\* strictly more than 20 seconds halts the loop without decoding; a decode
\* happens only at a reading of at most 20.
C4_HaltsAboveTwenty ==
    /\ [][elapsed' > 20 => pc' = "returned" /\ decodes' = decodes]_vars
    /\ [][decodes' = decodes + 1 => elapsed' <= 20]_vars

\* The time budget stopped a loop that had frames in hand.
C4_Witness ==
    pc = "returned" /\ halt = "timeout" /\ elapsed > 20 /\ kept >= 10

\* An iteration whose decode yields a BAD_DATA marker or raises.
C5_BadIteration == RecvBadData \/ RecvRaises \/ ToDictRaises

\* C5: an iteration whose decode yields a BAD_DATA marker or raises (in
\* recv_match, get_type or to_dict) adds exactly 1 to bad_data_count and
\* exactly 1 to consecutive_bad as it stood when the iteration began, and
\* leaves rows and message_count alone.
C5_BadFrameCountsOnce ==
    [][C5_BadIteration => /\ bad_data_count' = bad_data_count + 1
                          /\ consecutive_bad' = consecutive_bad + 1
                          /\ rows' = rows
                          /\ message_count' = message_count]_vars

\* C6: every iteration that does not halt the loop adds exactly 1 to
\* message_count + bad_data_count, and no call makes more than 2099 decode
\* attempts.
C6_BoundedDecodes ==
    /\ [][(pc = "loop" /\ pc' = "loop")
            => message_count' + bad_data_count'
                 = message_count + bad_data_count + 1]_vars
    /\ [](decodes <= 2099)

\* A call that made all 2099 attempts.
C6_Witness == decodes = 2099

(***************************************************************************)
(* The detection engine's claims, checked under DetectSpec.                *)
(***************************************************************************)
Categories(r) ==
    <<r.altitude_issues, r.gps_problems, r.battery_concerns,
      r.control_anomalies, r.navigation_issues, r.system_errors>>

C7_LargeChangeFinding ==
    [type |-> "large_altitude_change", severity |-> "medium",
     max_change_m |-> 30, occurrences |-> 3]

\* C7 as claimed: on the synthetic dataset the report has total_anomalies
\* 1, severity "minor", the one large_altitude_change finding (max_change_m
\* 30, occurrences 3, medium) in altitude_issues and nothing elsewhere.
C7_SyntheticReportOneFinding ==
    (pc = "reported" /\ df = create_minimal_test_data)
        => /\ report.summary = [total_anomalies |-> 1, severity |-> "minor"]
           /\ report.altitude_issues = <<C7_LargeChangeFinding>>
           /\ \A k \in 2..6 : Categories(report)[k] = << >>

\* C7 amended: on the synthetic dataset the report has total_anomalies 2,
\* severity "minor", and altitude_issues holds exactly the
\* large_altitude_change finding (max_change_m 30, occurrences 3, medium)
\* followed by one altitude_spike finding (sample 3, where 60 -> 85 -> 55
\* rises by 25 and falls by 30; medium, spike_magnitude_m 25); the five
\* other categories are empty.
C7_SyntheticReportTwoFindings ==
    (pc = "reported" /\ df = create_minimal_test_data)
        => /\ report.summary = [total_anomalies |-> 2, severity |-> "minor"]
           /\ report.altitude_issues =
                 <<C7_LargeChangeFinding,
                   [type |-> "altitude_spike", severity |-> "medium",
                    sample |-> 3, spike_magnitude_m |-> 25]>>
           /\ \A k \in 2..6 : Categories(report)[k] = << >>

\* The synthetic dataset has been analysed.
C7_Witness ==
    /\ pc = "reported"
    /\ df = create_minimal_test_data
    /\ Len(report.altitude_issues) = 2

\* The finding types each category may hold.
C8_TypesOfCategory ==
    <<{"large_altitude_change", "altitude_spike", "negative_altitude"},
      {"poor_gps_accuracy", "insufficient_satellites", "gps_position_jump"},
      {"low_battery_voltage", "low_battery_warning", "voltage_drop",
       "high_current_draw"},
      {"roll_instability", "extreme_roll", "pitch_instability", "extreme_pitch",
       "yaw_instability", "extreme_yaw"},
      {"waypoint_navigation_error", "excessive_climb_rate"},
      {"system_errors_detected", "frequent_mode_changes"}>>

\* C8: the report's total_anomalies is the sum of the lengths of its six
\* category lists, and every finding of a category is of a type its own
\* analyzer emits.
C8_TotalIsSumOfCategories ==
    pc = "reported"
        => /\ report.summary.total_anomalies
                = Len(report.altitude_issues) + Len(report.gps_problems)
                    + Len(report.battery_concerns) + Len(report.control_anomalies)
                    + Len(report.navigation_issues) + Len(report.system_errors)
           /\ \A k \in 1..6 :
                \A j \in 1..Len(Categories(report)[k]) :
                    Categories(report)[k][j].type \in C8_TypesOfCategory[k]

\* A report with findings in all six categories.
C8_Witness ==
    /\ pc = "reported"
    /\ \A k \in 1..6 : Len(Categories(report)[k]) > 0

\* C9: severity follows from total_anomalies alone: 0 is normal, 1 and 2
\* minor, 3 to 5 moderate, 6 and more critical.
C9_SeverityBands ==
    pc = "reported"
        => LET total == report.summary.total_anomalies
               severity == report.summary.severity
           IN  /\ total = 0 => severity = "normal"
               /\ total \in {1, 2} => severity = "minor"
               /\ total \in {3, 4, 5} => severity = "moderate"
               /\ total >= 6 => severity = "critical"

\* A report at the upper edge of the moderate band.
C9_Witness ==
    /\ pc = "reported"
    /\ report.summary = [total_anomalies |-> 5, severity |-> "moderate"]

\* C10: a table of 0 rows or 1 row, whatever its columns and values, gets
\* total_anomalies 0, severity "normal" and six empty categories.
C10_ShortTableFixedReport ==
    (pc = "reported" /\ df.n < 2)
        => /\ report.summary = [total_anomalies |-> 0, severity |-> "normal"]
           /\ \A k \in 1..6 : Categories(report)[k] = << >>

\* A one-row table holding an ERR frame, an HDop of 7.0 and a current of
\* 40 A has been analysed.
C10_Witness ==
    /\ pc = "reported"
    /\ df.n = 1
    /\ {"msg_type", "HDop", "Curr"} \subseteq Columns(df)
    /\ df.col["msg_type"][1] = <<"ERR">>
    /\ df.col["HDop"][1] = <<70>>
    /\ df.col["Curr"][1] = <<40>>

NoText(t) == \A name \in Columns(t) : ~has_text(t, name)

AllFindings(r) ==
    r.altitude_issues \o r.gps_problems \o r.battery_concerns
        \o r.control_anomalies \o r.navigation_issues \o r.system_errors

\* Each rule's finding types, with the columns it reads and the number of
\* non-missing values it needs of each.
C12_Rules ==
    {[types |-> {"large_altitude_change", "altitude_spike", "negative_altitude"},
      needs |-> {<<"Alt", 2>>}],
     [types |-> {"poor_gps_accuracy"}, needs |-> {<<"HDop", 1>>}],
     [types |-> {"insufficient_satellites"}, needs |-> {<<"NSats", 1>>}],
     [types |-> {"gps_position_jump"}, needs |-> {<<"Lat", 2>>, <<"Lng", 2>>}],
     [types |-> {"low_battery_voltage", "low_battery_warning"},
      needs |-> {<<"Volt", 1>>}],
     [types |-> {"voltage_drop"}, needs |-> {<<"Volt", 2>>}],
     [types |-> {"high_current_draw"}, needs |-> {<<"Curr", 1>>}],
     [types |-> {"roll_instability", "extreme_roll"}, needs |-> {<<"Roll", 2>>}],
     [types |-> {"pitch_instability", "extreme_pitch"}, needs |-> {<<"Pitch", 2>>}],
     [types |-> {"yaw_instability", "extreme_yaw"}, needs |-> {<<"Yaw", 2>>}],
     [types |-> {"waypoint_navigation_error"}, needs |-> {<<"WPDst", 2>>}],
     [types |-> {"excessive_climb_rate"}, needs |-> {<<"CRt", 1>>}],
     [types |-> {"system_errors_detected", "frequent_mode_changes"},
      needs |-> {<<"msg_type", 1>>}]}

\* C12: on a table of at least 2 rows (numbers and gaps), the call returns,
\* a rule whose column is absent or has fewer non-missing values than the
\* rule needs yields no finding, and a table that has none of Volt, Curr,
\* Roll, Pitch, Yaw, WPDst, CRt (whatever it has of DesRoll, DesPitch, VelX,
\* VelY, CurrTot) gets empty control_anomalies, navigation_issues and
\* battery_concerns.
C12_AbsentColumnsNoFindings ==
    (pc \in {"reported", "raised"} /\ df.n >= 2 /\ NoText(df))
        => /\ pc = "reported"
           /\ LET found == {AllFindings(report)[k].type :
                               k \in 1..Len(AllFindings(report))}
              IN  \A rule \in C12_Rules :
                    (\E need \in rule.needs : Len(present(df, need[1])) < need[2])
                        => found \cap rule.types = {}
           /\ Columns(df) \cap {"Volt", "Curr", "Roll", "Pitch", "Yaw", "WPDst", "CRt"} = {}
                => /\ report.control_anomalies = << >>
                   /\ report.navigation_issues = << >>
                   /\ report.battery_concerns = << >>

\* A table of the five dispatch-only columns, with values that would trip
\* an attitude rule were they Roll's, has been analysed.
C12_Witness ==
    /\ pc = "reported"
    /\ df.n >= 3
    /\ Columns(df) = {"DesRoll", "DesPitch", "VelX", "VelY", "CurrTot"}
    /\ df.col["DesRoll"][2] = <<90>>
    /\ report.summary.total_anomalies = 0

\* The table with every string cell taken out (left as a gap).
C13_WithoutText(t) ==
    [t EXCEPT !.col = [name \in DOMAIN t.col |->
                          [i \in 1..Len(t.col[name]) |->
                              IF IsText(t.col[name][i]) THEN NaN
                              ELSE t.col[name][i]]]]

\* C13: a string in a column is dropped like a missing value before anything
\* is computed: the call on a table holding a string returns, and returns
\* the report of the same table with the string removed.
C13_TextIsDropped ==
    (pc \in {"reported", "raised"} /\ ~NoText(df))
        => /\ pc = "reported"
           /\ report = detect_anomalies(C13_WithoutText(df))

\* The consecutive pairs of non-missing Lat values more than 100 m apart
\* (1e-4 degree is 111 dm; 100 m is 1000 dm).
C14_LatSteps(t) ==
    LET lat == values(dropna(t.col["Lat"]))
    IN  Cardinality({k \in 1..(Len(lat) - 1) : abs(lat[k + 1] - lat[k]) * 111 > 1000})

C14_Jumps(r) == SelectSeq(r.gps_problems, LAMBDA f : f.type = "gps_position_jump")

\* C14: when Lat and Lng each have at least 2 non-missing values, on the same
\* rows or not, and Lng never changes, there is exactly one critical
\* gps_position_jump finding if some consecutive pair of non-missing Lat
\* values is more than 100 m apart, with jump_count the number of such
\* pairs, and no such finding otherwise.
C14_JumpCountsLatSteps ==
    (/\ pc = "reported"
     /\ {"Lat", "Lng"} \subseteq Columns(df)
     /\ NoText(df)
     /\ Len(present(df, "Lat")) >= 2
     /\ Len(present(df, "Lng")) >= 2
     /\ Cardinality(Elements(present(df, "Lng"))) = 1)
        => C14_Jumps(report) =
              IF C14_LatSteps(df) > 0
              THEN <<[type |-> "gps_position_jump", severity |-> "critical",
                      jump_count |-> C14_LatSteps(df)]>>
              ELSE << >>

C15_CurrentFindings(r) ==
    SelectSeq(r.battery_concerns, LAMBDA f : f.type = "high_current_draw")

\* C15: on a table of at least 2 rows there is one medium high_current_draw
\* finding if the largest non-missing Curr value is strictly above 30 and
\* none otherwise; a largest value of exactly 30 gives none.
C15_HighCurrentIsStrict ==
    (pc = "reported" /\ df.n >= 2 /\ NoText(df))
        => LET current == values(dropna(present(df, "Curr")))
               found == C15_CurrentFindings(report)
           IN  IF Len(current) > 0 /\ seq_max(current) > 30
               THEN /\ Len(found) = 1
                    /\ found[1].severity = "medium"
                    /\ found[1].max_current_a = seq_max(current)
               ELSE found = << >>

\* A Curr column whose largest value is exactly 30 has been analysed.
C15_Witness ==
    /\ pc = "reported"
    /\ df.n >= 2
    /\ "Curr" \in Columns(df)
    /\ \E i \in 1..df.n : df.col["Curr"][i] = <<30>>
    /\ \A i \in 1..df.n : df.col["Curr"][i] \in {<<30>>, NaN}
    /\ C15_CurrentFindings(report) = << >>

BatteryFindings(r, type) == SelectSeq(r.battery_concerns, LAMBDA f : f.type = type)

\* C18: with at least one non-missing Volt value (in tenths of a volt) the
\* report has low_battery_voltage (critical) exactly when the minimum is
\* under 11.1, low_battery_warning (medium) exactly when the minimum is at
\* least 11.1 and under 11.5, never both, and neither from 11.5 up;
\* voltage_drop is there, whatever the minimum, exactly when some
\* consecutive difference is under -0.5, with drop_count the number of
\* such steps.
C18_VoltageFindings ==
    (pc = "reported" /\ df.n >= 2 /\ NoText(df) /\ Len(present(df, "Volt")) >= 1)
        => LET voltage == values(dropna(present(df, "Volt")))
               lowest == seq_min(voltage)
               low == BatteryFindings(report, "low_battery_voltage")
               warning == BatteryFindings(report, "low_battery_warning")
               dropped == BatteryFindings(report, "voltage_drop")
               steps == Cardinality({k \in 1..(Len(voltage) - 1) :
                                       voltage[k + 1] - voltage[k] < -5})
           IN  /\ Len(low) + Len(warning) <= 1
               /\ Len(low) = 1 <=> lowest < 111
               /\ Len(warning) = 1 <=> (111 <= lowest /\ lowest < 115)
               /\ \A k \in 1..Len(low) : low[k].severity = "critical"
               /\ \A k \in 1..Len(warning) : warning[k].severity = "medium"
               /\ Len(dropped) = (IF steps > 0 THEN 1 ELSE 0)
               /\ \A k \in 1..Len(dropped) :
                     dropped[k].severity = "medium" /\ dropped[k].drop_count = steps

\* A voltage that falls from 12.0 to exactly 11.1: the warning and a drop,
\* not the critical finding.
C18_Witness ==
    /\ pc = "reported"
    /\ "Volt" \in Columns(df)
    /\ df.n >= 3
    /\ df.col["Volt"][1] = <<120>>
    /\ df.col["Volt"][2] = <<111>>
    /\ df.col["Volt"][3] = <<115>>
    /\ Len(BatteryFindings(report, "low_battery_warning")) = 1
    /\ Len(BatteryFindings(report, "voltage_drop")) = 1
    /\ BatteryFindings(report, "low_battery_voltage") = << >>

AltitudeSpikes(r) == SelectSeq(r.altitude_issues, LAMBDA f : f.type = "altitude_spike")

\* C19: with n >= 2 non-missing Alt values alt[0..n-1], the altitude_spike
\* findings are, in increasing order of i, one for each i in 1..n-2 with
\* alt[i] - alt[i-1] > 15 and alt[i+1] - alt[i] < -15, each of severity
\* medium with spike_magnitude_m = alt[i] - alt[i-1], and no others; a rise
\* or a fall of exactly 15 makes no spike.
C19_SpikePerInteriorIndex ==
    (pc = "reported" /\ NoText(df) /\ Len(present(df, "Alt")) >= 2)
        => LET alt == values(dropna(present(df, "Alt")))
               n == Len(alt)
               at(i) == alt[i + 1]
               matching == SelectSeq([i \in 1..(n - 2) |-> i],
                                     LAMBDA i : /\ at(i) - at(i - 1) > 15
                                                /\ at(i + 1) - at(i) < -15)
           IN  AltitudeSpikes(report) =
                  [k \in 1..Len(matching) |->
                      [type |-> "altitude_spike",
                       severity |-> "medium",
                       sample |-> matching[k],
                       spike_magnitude_m |-> at(matching[k]) - at(matching[k] - 1)]]

\* Two spikes in one column: 15 31 15 31 0 15 has spikes at samples 1 and
\* 3, and ends on a rise of exactly 15.
C19_Witness ==
    /\ pc = "reported"
    /\ Columns(df) = {"Alt"}
    /\ df.col["Alt"] = <<(<<15>>), (<<31>>), (<<15>>), (<<31>>), (<<0>>), (<<15>>)>>
    /\ Len(AltitudeSpikes(report)) = 2
    /\ AltitudeSpikes(report)[1].sample = 1
    /\ AltitudeSpikes(report)[2].sample = 3

WaypointFindings(r) ==
    SelectSeq(r.navigation_issues, LAMBDA f : f.type = "waypoint_navigation_error")

\* C20: with n >= 2 non-missing WPDst values there is one medium
\* waypoint_navigation_error finding if the number of consecutive steps that
\* rise by more than 10 is more than 30% of n, the number of samples, and
\* none otherwise.
C20_WaypointShareOfSamples ==
    (pc = "reported" /\ NoText(df) /\ Len(present(df, "WPDst")) >= 2)
        => LET wp_dist == values(dropna(present(df, "WPDst")))
               n == Len(wp_dist)
               rises == Cardinality({k \in 1..(n - 1) :
                                       wp_dist[k + 1] - wp_dist[k] > 10})
               found == WaypointFindings(report)
           IN  IF 10 * rises > 3 * n
               THEN /\ Len(found) = 1
                    /\ found[1].severity = "medium"
               ELSE found = << >>

\* Four samples with one rise of 11: one step in three, but not more than
\* 30% of four samples, so no finding.
C20_Witness ==
    /\ pc = "reported"
    /\ "WPDst" \in Columns(df)
    /\ df.n = 4
    /\ df.col["WPDst"] = <<(<<0>>), (<<11>>), (<<11>>), (<<10>>)>>
    /\ WaypointFindings(report) = << >>

(***************************************************************************)
(* The claims about calls running at once and about the rows kept,         *)
(* checked under PairSpec.                                                 *)
(***************************************************************************)

\* What a call returns when nothing else runs: the loop run to its end on a
\* decoder that reads the call's own upload.
RECURSIVE C16_RunToEnd(_)
C16_RunToEnd(s) == IF s.pc = "returned" THEN s.result ELSE C16_RunToEnd(iterate(s))

C16_Alone(upload) ==
    IF upload.frames = Unreadable THEN create_minimal_test_data
    ELSE C16_RunToEnd([NewCall(upload) EXCEPT
                          !.pc = "loop",
                          !.mlog = [frames |-> upload.frames, pos |-> 0]])

C16_InProgress(c) == calls[c].pc \in {"written", "loop"}

\* C16: under every interleaving of two calls, each call has a temporary
\* file of its own, decodes its own upload, and returns the table it would
\* return when run alone.
C16_CallsAreIndependent ==
    \A c \in Calls :
        /\ calls[c].pc = "returned" => calls[c].result = C16_Alone(calls[c].data)
        /\ calls[c].pc = "loop" => calls[c].mlog.frames = calls[c].data.frames
        /\ C16_InProgress(c) => calls[c].temp_file_path \in DOMAIN files
        /\ \A other \in Calls \ {c} :
              (C16_InProgress(c) /\ C16_InProgress(other))
                  => calls[c].temp_file_path # calls[other].temp_file_path

\* The first call has returned the 11 frames of its own upload while the
\* second, given a different upload, is in the middle of its loop.
C16_Witness ==
    /\ calls[1].pc = "returned"
    /\ calls[1].result.kind = "frames"
    /\ calls[1].result.n = 11
    /\ calls[2].pc = "loop"
    /\ calls[2].mlog.pos >= 5
    /\ calls[2].data # calls[1].data

\* The valid frames among those the call's decoder has handed out, by their
\* positions in the stream, in decode order.
C17_ValidDecoded(s) ==
    SelectSeq([i \in 1..s.mlog.pos |-> i], LAMBDA i : s.mlog.frames[i] = "valid")

\* C17: throughout the loop message_count is the number of rows; when the
\* loop has halted with at least 10 valid frames kept, the table returned
\* holds exactly the valid frames decoded before the halt, in decode order;
\* and every valid frame kept sets consecutive_bad to 0.
C17_RowsAreTheValidFrames ==
    /\ [](\A c \in Calls :
            /\ calls[c].pc = "loop" => /\ calls[c].message_count = Len(calls[c].rows)
                                       /\ calls[c].rows = C17_ValidDecoded(calls[c])
            /\ (calls[c].pc = "returned" /\ Len(C17_ValidDecoded(calls[c])) >= 10)
                  => calls[c].result = DataFrameRows(C17_ValidDecoded(calls[c])))
    /\ [][\A c \in Calls :
            Len(calls'[c].rows) # Len(calls[c].rows)
                => /\ calls'[c].rows = Append(calls[c].rows, calls'[c].mlog.pos)
                   /\ calls'[c].consecutive_bad = 0]_vars

\* A call stopped by ten corrupt frames in a row has returned the 11 valid
\* frames decoded before them.
C17_Witness ==
    \E c \in Calls :
        /\ calls[c].pc = "returned"
        /\ calls[c].consecutive_bad = 10
        /\ calls[c].result = DataFrameRows(<<1, 2, 3, 4, 5, 6, 7, 8, 9, 10, 11>>)

(***************************************************************************)
(* The chat generator's claim, checked under ChatSpec.                     *)
(***************************************************************************)

\* The text an event carries: what stands between "data:" and the blank line.
payload(e) == SubSeq(e, 6, Len(e) - 2)

C21_Payloads(c) == [i \in 1..Len(c.events) |-> payload(c.events[i])]

\* The non-null tokens among the first n chunks of the stream, in order.
C21_TokensOf(c, n) ==
    LET streamed == SelectSeq(SubSeq(c.stream, 1, n), LAMBDA chunk : chunk # None)
    IN  [i \in 1..Len(streamed) |-> streamed[i][1]]

\* What history() gives after the user's message that opened this exchange.
RECURSIVE C21_AfterLastUser(_)
C21_AfterLastUser(msgs) ==
    IF msgs = << >> \/ msgs[Len(msgs)].role = "user" THEN << >>
    ELSE Append(C21_AfterLastUser(SubSeq(msgs, 1, Len(msgs) - 1)), msgs[Len(msgs)])

C21_Saved(c) == C21_AfterLastUser(history(c.hist))

\* Tokens taken from the stream and not yet in an event.
C21_Pending(c) == IF c.pc = "loop" THEN join(c.sentence_buffer) ELSE << >>

C21_Emitted ==
    /\ join(C21_Payloads(chat)) \o C21_Pending(chat)
          = join(C21_TokensOf(chat, chat.pos))
    /\ join(chat.full) = join(C21_TokensOf(chat, chat.pos))
    /\ \A i \in 1..Len(chat.events) :
          chat.events[i] = event(payload(chat.events[i]))

C21_Ended ==
    /\ chat.pc = "done" =>
          /\ chat.pos = Len(chat.stream)
          /\ join(C21_Payloads(chat)) = join(C21_TokensOf(chat, Len(chat.stream)))
          /\ C21_Saved(chat)
                = << [role    |-> "assistant",
                      content |-> join(C21_TokensOf(chat, Len(chat.stream)))] >>
    /\ chat.pc # "done" => C21_Saved(chat) = << >>
    /\ chat.pc \in {"loop", "yield sentence", "yield remaining"} => ENABLED ChatNext

C21_NothingAfterSaving ==
    C21_Saved(chat) # << >> => chat' = chat

\* C21: at every point of a run of the generator the payloads of the events
\* yielded so far, joined in order, followed by the tokens still buffered, are
\* exactly the non-null tokens taken from the stream so far, joined in order.
\* A generator that is run to its end has then yielded every token of the
\* stream, a trailing fragment without a terminator included, and the session
\* history holds one assistant message after the user's, whose content is that
\* same text; before the end it holds none, and nothing is yielded or saved
\* once it is there.
C21_RepliesAreTheTokens ==
    [](C21_Emitted /\ C21_Ended) /\ [][C21_NothingAfterSaving]_vars

\* A stream with a null chunk, a sentence and a trailing fragment that has a
\* newline in it, run to the end after an earlier exchange: two events, and
\* the second assistant message of the history is the whole text.
C21_Witness ==
    /\ chat.pc = "done"
    /\ chat.stream = << Content(<<"a">>), None, Content(<<"a", ".">>), Content(<<NL>>) >>
    /\ C21_Payloads(chat) = << <<"a", "a", ".">>, <<NL>> >>
    /\ Len(chat.hist) = 4
    /\ history(chat.hist)[4] = [role |-> "assistant", content |-> <<"a", "a", ".", NL>>]
    /\ chat.hist[4].content = <<"a", "a", ".", "\\", "n">>

====
